---- MODULE Spec2Model ----
(***************************************************************************)
(* AI Triage Action: one run of the action (src/index.ts run), the         *)
(* duplicate detector (dedupe.ts), the summarizer (summarizer.ts), the     *)
(* tracker client (github.ts), the optional store (db.ts) and the scorer   *)
(* (scoring.ts).  Every await on an external service is one step whose     *)
(* outcome (a reply, or a failure) is chosen nondeterministically.         *)
(*                                                                         *)
(* Numbers.  A cosine similarity s in [-1,1] is irrational in general, so  *)
(* it is held exactly as the rational sgn(s)*s^2 = num/den (den > 0); the  *)
(* map s |-> sgn(s)*s^2 is strictly increasing, so every comparison the    *)
(* code makes on s is made here on num/den by cross multiplication.        *)
(* The threshold and a confidence are held in hundredths (85 is 0.85).     *)
(***************************************************************************)
EXTENDS Integers, Sequences, FiniteSets, TLC

\* ---------------------------------------------------------------- bounds
\* Tracker items are numbered 1..MaxItems.
MaxItems == 3
\* max_candidates is drawn from 1..MaxCap.
MaxCap == 2

\* ------------------------------------------------------------- constants
DefaultThreshold == 85
BaseScore == 50

\* ------------------------------------------------------------ small sets
\* The null of canonical_item (and "no candidate was classified").
NoItem == 0
\* The null of the module-level pool of db.ts.
NoPool == 0
ItemNumbers == 1..MaxItems
\* The number of the issue or pull request that triggers the run.
TriggerNumbers == {2}

\* Embedding vectors the embedding endpoint may return (all of one length).
\* cos((1,0),(4,3)) = 0.8 and cos(v,v) = 1.
EmbeddingSamples == { <<1, 0>>, <<4, 3>> }
NoEmbedding == << >>

\* similarity_threshold values, in hundredths.
Thresholds == {80, DefaultThreshold}

\* The title of tracker item n.
TitleOf(n) == <<"title", n>>
\* Texts the model distinguishes.
LlmText == <<"llm", 0>>
NoProblemStatement == <<"No problem statement", 0>>
EmptyText == <<"", 0>>

\* ---------------------------------------------------------- summarizer
RECURSIVE DotFrom(_, _, _)
\* The loop of calculateCosineSimilarity: sum of a[i]*b[i] for i >= k.
DotFrom(a, b, k) ==
    IF k > Len(a) THEN 0 ELSE a[k] * b[k] + DotFrom(a, b, k + 1)

Sgn(x) == IF x > 0 THEN 1 ELSE IF x < 0 THEN -1 ELSE 0

\* The result of a throw of calculateCosineSimilarity.
SimilarityError == [num |-> 0, den |-> 0]
ZeroSimilarity == [num |-> 0, den |-> 1]

\* A calculateCosineSimilarity without its test for a zero norm, of which
\* CosineFailsOrZero must not hold.
cosineWithoutZeroTest(a, b) ==
    IF Len(a) # Len(b) THEN SimilarityError
    ELSE LET dotProduct == DotFrom(a, b, 1)
         IN  [num |-> Sgn(dotProduct) * dotProduct * dotProduct,
              den |-> DotFrom(a, a, 1) * DotFrom(b, b, 1)]

\* A calculateCosineSimilarity that divides by the squared norms, of which
\* CosineOfSelfAndOrthogonal must not hold.
cosineWithoutRoots(a, b) ==
    IF Len(a) # Len(b) THEN SimilarityError
    ELSE LET dotProduct == DotFrom(a, b, 1)
             normA2 == DotFrom(a, a, 1)
             normB2 == DotFrom(b, b, 1)
         IN  IF normA2 = 0 \/ normB2 = 0 THEN ZeroSimilarity
             ELSE [num |-> Sgn(dotProduct) * dotProduct * dotProduct,
                   den |-> normA2 * normB2 * normA2 * normB2]

\* calculateCosineSimilarity(a, b): throws on a length mismatch, 0 when a
\* norm is 0, else dot / (|a| * |b|), held as sgn(dot)*dot^2 / (|a|^2*|b|^2).
calculateCosineSimilarity(a, b) ==
    IF Len(a) # Len(b) THEN SimilarityError
    ELSE LET dotProduct == DotFrom(a, b, 1)
             normA2 == DotFrom(a, a, 1)
             normB2 == DotFrom(b, b, 1)
         IN  IF normA2 = 0 \/ normB2 = 0 THEN ZeroSimilarity
             ELSE [num |-> Sgn(dotProduct) * dotProduct * dotProduct,
                   den |-> normA2 * normB2]

\* x >= y on similarities (both with den > 0).
SimGE(x, y) == x.num * y.den >= y.num * x.den

\* A threshold t >= 0 given in hundredths, as a similarity value.
ThresholdValue(pct) == [num |-> pct * pct, den |-> 10000]

\* similarity > similarityThreshold: the threshold test made strict, of which
\* StatelessThresholdFilter must not hold.
ExceedsThreshold(similarity, pct) == ~SimGE(ThresholdValue(pct), similarity)

\* similarity >= similarityThreshold (dedupe.ts line 99).
MeetsThreshold(similarity, pct) == SimGE(similarity, ThresholdValue(pct))

\* ------------------------------------------------- LLM replies (untrusted)
\* A chat completion either fails (network, auth, rate limit), returns text
\* that JSON.parse rejects, or returns a JSON object.  A text field of the
\* object is EmptyText when it is missing or falsy; an array field is
\* NotAnArray when it is missing or of another type.
NotAnArray == [isArray |-> FALSE, elems |-> << >>]
ArrayOf(elems) == [isArray |-> TRUE, elems |-> elems]
ChatError == [kind |-> "error"]
ChatNotJson == [kind |-> "notjson"]

SummaryReplies ==
    { ChatError, ChatNotJson,
      [kind |-> "json", problem_statement |-> EmptyText, scope |-> EmptyText,
       key_entities |-> NotAnArray, affected_files |-> NotAnArray],
      [kind |-> "json", problem_statement |-> LlmText, scope |-> LlmText,
       key_entities |-> ArrayOf(<<"login">>),
       affected_files |-> ArrayOf(<<"login.ts">>)] }

\* A basic summary without the caller's files, of which
\* DefaultSummaryKeepsFiles must not hold.
TitleOnlySummary(title, files) ==
    [problem_statement |-> title,
     scope |-> <<"Unknown", 0>>,
     key_entities |-> << >>,
     affected_files |-> << >>]

\* The basic summary generateSummary's catch block returns.
BasicSummary(title, files) ==
    [problem_statement |-> title,
     scope |-> <<"Unknown", 0>>,
     key_entities |-> << >>,
     affected_files |-> files]

\* generateSummary(openai, title, body, files): the parsed reply with its
\* field defaults, or, on any failure, the basic summary of the catch block.
generateSummary(title, files, reply) ==
    IF reply.kind = "json"
    THEN [problem_statement |->
              IF reply.problem_statement # EmptyText
              THEN reply.problem_statement ELSE NoProblemStatement,
          scope |-> IF reply.scope # EmptyText THEN reply.scope
                    ELSE <<"Unknown", 0>>,
          key_entities |-> IF reply.key_entities.isArray
                           THEN reply.key_entities.elems ELSE << >>,
          affected_files |-> IF reply.affected_files.isArray
                             THEN reply.affected_files.elems ELSE << >>]
    ELSE BasicSummary(title, files)

\* The summary generateSummary's caller holds before the call returned.
NoSummary ==
    [problem_statement |-> EmptyText, scope |-> EmptyText,
     key_entities |-> << >>, affected_files |-> << >>]

\* ------------------------------------------------------------------ dedupe
Classifications == {"duplicate", "related", "distinct"}

\* Some tracker item other than n.
OtherThan(n) == (n % MaxItems) + 1

\* A JSON reply to the classification prompt.  confidence is in hundredths
\* (0 when missing); canonical_item is NoItem when missing or null.
ClassifyReply(classification, confidence, canonical_item) ==
    [kind |-> "json", classification |-> classification,
     confidence |-> confidence, canonical_item |-> canonical_item,
     reasoning |-> LlmText]

\* Replies to the classification prompt for candidate `top`.
ClassifyReplies(top) ==
    { ChatError, ChatNotJson,
      [kind |-> "json", classification |-> "", confidence |-> 0,
       canonical_item |-> NoItem, reasoning |-> EmptyText],
      ClassifyReply("duplicate", 90, top),
      ClassifyReply("duplicate", 90, OtherThan(top)),
      ClassifyReply("related", 90, top),
      ClassifyReply("related", 90, NoItem),
      ClassifyReply("distinct", 10, NoItem),
      ClassifyReply("maybe", 700, top) }

\* detectDuplicates returned null.
NullResult ==
    [isNull |-> TRUE, classification |-> "", confidence |-> 0,
     canonical_item |-> NoItem, reasoning |-> EmptyText]

\* A catch block that answers "related", of which
\* ClassifyFailureYieldsDistinct must not hold.
ClassificationFailedAsRelated ==
    [isNull |-> FALSE, classification |-> "related", confidence |-> 0,
     canonical_item |-> NoItem,
     reasoning |-> <<"Classification failed", 0>>]

\* What the catch block of classifyDuplicate returns.
ClassificationFailed ==
    [isNull |-> FALSE, classification |-> "distinct", confidence |-> 0,
     canonical_item |-> NoItem,
     reasoning |-> <<"Classification failed", 0>>]

\* classifyDuplicate: the reply's fields with their || defaults, or the
\* result of the catch block.
classifyDuplicate(reply) ==
    IF reply.kind = "json"
    THEN [isNull |-> FALSE,
          classification |-> IF reply.classification # ""
                             THEN reply.classification ELSE "distinct",
          confidence |-> IF reply.confidence # 0 THEN reply.confidence ELSE 0,
          canonical_item |-> IF reply.canonical_item # NoItem
                             THEN reply.canonical_item ELSE NoItem,
          reasoning |-> IF reply.reasoning # EmptyText THEN reply.reasoning
                        ELSE <<"No reasoning provided", 0>>]
    ELSE ClassificationFailed

\* One candidate of detectDuplicates.
Candidate(number, title, summary, similarity) ==
    [number |-> number, title |-> title, summary |-> summary,
     similarity |-> similarity]

RECURSIVE InsertDesc(_, _)
\* c placed after every element whose similarity is >= c's (stable).
InsertDesc(sorted, c) ==
    IF sorted = << >> THEN <<c>>
    ELSE IF SimGE(Head(sorted).similarity, c.similarity)
         THEN <<Head(sorted)>> \o InsertDesc(Tail(sorted), c)
         ELSE <<c>> \o sorted

RECURSIVE SortFrom(_, _, _)
SortFrom(cands, k, acc) ==
    IF k > Len(cands) THEN acc
    ELSE SortFrom(cands, k + 1, InsertDesc(acc, cands[k]))

\* The candidates left in visiting order, of which
\* ClassifiesTopCandidateOnce must not hold.
Unsorted(cands) == cands

\* candidates.sort((a, b) => b.similarity - a.similarity): a stable sort,
\* similarity descending.
SortBySimilarity(cands) == SortFrom(cands, 1, << >>)

\* const topCandidate = candidates[0]
TopCandidate(cands) == cands[1]

\* ---------------------------------------------------------------------- db
RECURSIVE NumberToString(_)
\* itemNumber.toString(): the decimal digits of n >= 0.
NumberToString(n) ==
    IF n < 10 THEN <<n>> ELSE NumberToString(n \div 10) \o <<n % 10>>

RECURSIVE ParseDigits(_, _)
ParseDigits(digits, acc) ==
    IF digits = << >> THEN acc
    ELSE ParseDigits(Tail(digits), 10 * acc + Head(digits))

\* parseInt(item.github_id)
ParseInt(digits) == ParseDigits(digits, 0)

\* `${client.context.repo.owner}/${client.context.repo.repo}` of the run, and
\* the same of another repository that shares the store.
ThisRepo == "owner/repo"
OtherRepo == "other/repo"

\* One row of the items table; its key is (repo, github_id, type).
Row(repo, id, kind, title, summary, embedding, closed) ==
    [repo |-> repo, github_id |-> id, type |-> kind, title |-> title,
     summary |-> summary, embedding |-> embedding, closed |-> closed]

\* An INSERT without its ON CONFLICT clause and without the unique index, of
\* which UpsertKeepsOneRowPerKey must not hold.
InsertOnly(rows, item) == rows \cup {item}

\* INSERT ... ON CONFLICT (repo, github_id, type) DO UPDATE SET title,
\* summary, embedding, closed.
Upsert(rows, item) ==
    { r \in rows : ~(/\ r.repo = item.repo
                      /\ r.github_id = item.github_id
                      /\ r.type = item.type) }
    \cup {item}

\* WHERE repo = $2 AND type = $3 AND closed = FALSE
Eligible(rows, repo, kind) ==
    { r \in rows : r.repo = repo /\ r.type = kind /\ ~r.closed }

\* 1 - (embedding <=> $1::vector) as similarity, read back as
\* item.similarity || 0.
RowSimilarity(r, embedding) == calculateCosineSimilarity(r.embedding, embedding)

\* The result sets the SELECT may return: min(limit, #eligible) distinct
\* eligible rows, nearest first (ties in any order), none of the rows left
\* out nearer than one returned.
SelectResults(rows, embedding, repo, kind, limit) ==
    LET el == Eligible(rows, repo, kind)
        n == IF Cardinality(el) < limit THEN Cardinality(el) ELSE limit
    IN  { s \in [1..n -> el] :
            /\ \A i, j \in 1..n : i # j => s[i] # s[j]
            /\ \A i \in 1..n, j \in 1..n :
                 i < j => SimGE(RowSimilarity(s[i], embedding),
                                RowSimilarity(s[j], embedding))
            /\ \A r \in el :
                 (\A i \in 1..n : s[i] # r) =>
                    \A i \in 1..n : SimGE(RowSimilarity(s[i], embedding),
                                          RowSimilarity(r, embedding)) }

\* The rows mapped to candidates without the filter on github_id, of which
\* NeverOwnCandidate must not hold.
RowsToCandidatesUnfiltered(rs, embedding, itemNumber) ==
    [i \in 1..Len(rs) |->
        Candidate(ParseInt(rs[i].github_id), rs[i].title, rs[i].summary,
                  RowSimilarity(rs[i], embedding))]

RECURSIVE RowsToCandidates(_, _, _)
\* similarItems.filter(item => item.github_id !== itemNumber.toString())
\*             .map(item => ({number, title, summary, similarity}))
RowsToCandidates(rs, embedding, itemNumber) ==
    IF rs = << >> THEN << >>
    ELSE LET r == Head(rs)
             rest == RowsToCandidates(Tail(rs), embedding, itemNumber)
         IN  IF r.github_id # NumberToString(itemNumber)
             THEN <<Candidate(ParseInt(r.github_id), r.title, r.summary,
                              RowSimilarity(r, embedding))>> \o rest
             ELSE rest

\* Stores left by earlier runs (rows of both kinds, one closed by its owner,
\* one of another repository).
PriorStore ==
    { Row(ThisRepo, NumberToString(1), "issue", TitleOf(1), LlmText,
          <<1, 0>>, FALSE),
      Row(ThisRepo, NumberToString(2), "issue", TitleOf(2), LlmText,
          <<4, 3>>, FALSE),
      Row(ThisRepo, NumberToString(3), "issue", TitleOf(3), LlmText,
          <<1, 0>>, TRUE),
      Row(ThisRepo, NumberToString(1), "pr", TitleOf(1), LlmText,
          <<4, 3>>, FALSE),
      Row(ThisRepo, NumberToString(2), "pr", TitleOf(2), LlmText,
          <<4, 3>>, FALSE),
      Row(OtherRepo, NumberToString(3), "issue", TitleOf(3), LlmText,
          <<1, 0>>, FALSE),
      Row(OtherRepo, NumberToString(3), "pr", TitleOf(3), LlmText,
          <<4, 3>>, FALSE) }
InitialStores == { {}, PriorStore }

\* -------------------------------------------------------------- scoring.ts
\* A path is the sequence of its characters.
Contains(path, pat) ==
    \E i \in 1..(Len(path) - Len(pat) + 1) :
        SubSeq(path, i, i + Len(pat) - 1) = pat

UpperCase == <<"A", "B", "C", "D", "E", "F", "G", "H", "I", "J", "K",
               "L", "M", "N", "O", "P", "Q", "R", "S", "T", "U", "V",
               "W", "X", "Y", "Z">>
LowerCase == <<"a", "b", "c", "d", "e", "f", "g", "h", "i", "j", "k",
               "l", "m", "n", "o", "p", "q", "r", "s", "t", "u", "v",
               "w", "x", "y", "z">>
ToLowerChar(c) ==
    IF \E i \in 1..Len(UpperCase) : UpperCase[i] = c
    THEN LowerCase[CHOOSE i \in 1..Len(UpperCase) : UpperCase[i] = c]
    ELSE c
ToLower(path) == [i \in 1..Len(path) |-> ToLowerChar(path[i])]

\* highRiskPatterns: /auth/i ... /infra/i
HighRiskPatterns ==
    { <<"a", "u", "t", "h">>,
      <<"s", "e", "c", "u", "r", "i", "t", "y">>,
      <<"p", "a", "y", "m", "e", "n", "t">>,
      <<"b", "i", "l", "l", "i", "n", "g">>,
      <<"d", "a", "t", "a", "b", "a", "s", "e">>,
      <<"m", "i", "g", "r", "a", "t", "i", "o", "n">>,
      <<"s", "c", "h", "e", "m", "a">>,
      <<"c", "o", "n", "f", "i", "g">>,
      <<"e", "n", "v">>,
      <<"d", "e", "p", "l", "o", "y", "m", "e", "n", "t">>,
      <<"i", "n", "f", "r", "a">> }

\* testPatterns: /\.test\./, /\.spec\./, /__tests__\//, /test\//, /tests\//,
\* /spec\//
TestPatterns ==
    { <<".", "t", "e", "s", "t", ".">>,
      <<".", "s", "p", "e", "c", ".">>,
      <<"_", "_", "t", "e", "s", "t", "s", "_", "_", "/">>,
      <<"t", "e", "s", "t", "/">>,
      <<"t", "e", "s", "t", "s", "/">>,
      <<"s", "p", "e", "c", "/">> }

FilesOf(fs) == { fs[i] : i \in 1..Len(fs) }

\* The characters of the paths the model uses.
AuthPath == "src/auth/session.ts"
TestPath == "tests/session.test.ts"
LatestPath == "src/latest/index.ts"
ContestPath == "contest/run.ts"
DunderPath == "src/__tests__/a.ts"
TestDirPath == "test/a.ts"
SpecDirPath == "lib/spec/a.ts"
SpecFilePath == "a.spec.ts"
MainPath == "src/main.ts"
TestingPath == "src/testing.ts"
Chars(path) ==
    CASE path = AuthPath ->
           <<"s", "r", "c", "/", "a", "u", "t", "h", "/", "s", "e", "s",
             "s", "i", "o", "n", ".", "t", "s">>
      [] path = TestPath ->
           <<"t", "e", "s", "t", "s", "/", "s", "e", "s", "s", "i", "o",
             "n", ".", "t", "e", "s", "t", ".", "t", "s">>
      [] path = LatestPath ->
           <<"s", "r", "c", "/", "l", "a", "t", "e", "s", "t", "/", "i",
             "n", "d", "e", "x", ".", "t", "s">>
      [] path = ContestPath ->
           <<"c", "o", "n", "t", "e", "s", "t", "/", "r", "u", "n", ".",
             "t", "s">>
      [] path = DunderPath ->
           <<"s", "r", "c", "/", "_", "_", "t", "e", "s", "t", "s", "_",
             "_", "/", "a", ".", "t", "s">>
      [] path = TestDirPath ->
           <<"t", "e", "s", "t", "/", "a", ".", "t", "s">>
      [] path = SpecDirPath ->
           <<"l", "i", "b", "/", "s", "p", "e", "c", "/", "a", ".", "t",
             "s">>
      [] path = SpecFilePath ->
           <<"a", ".", "s", "p", "e", "c", ".", "t", "s">>
      [] path = MainPath ->
           <<"s", "r", "c", "/", "m", "a", "i", "n", ".", "t", "s">>
      [] path = TestingPath ->
           <<"s", "r", "c", "/", "t", "e", "s", "t", "i", "n", "g", ".",
             "t", "s">>

detectHighRiskModules(fs) ==
    \E f \in FilesOf(fs) : \E pat \in HighRiskPatterns :
        Contains(ToLower(Chars(f)), pat)

detectTests(fs) ==
    \E f \in FilesOf(fs) : \E pat \in TestPatterns :
        Contains(Chars(f), pat)

\* Math.round(n / d) for d > 0: the nearest integer, a half rounded up.
RoundHalfUp(n, d) == (2 * n + d) \div (2 * d)

Max(a, b) == IF a >= b THEN a ELSE b
Min(a, b) == IF a <= b THEN a ELSE b

\* Lines 253-258: Math.round((llmScore - 50) * 0.3) when a review result is
\* supplied.
adjustment(reviewResult) ==
    IF reviewResult.present
    THEN RoundHalfUp((reviewResult.readiness_score - 50) * 3, 10)
    ELSE 0

\* A calculateScore without its final clamp, of which ScoreWithinBounds must
\* not hold.
calculateScoreUnclamped(factors, reviewResult) ==
    LET s1 == BaseScore + (IF factors.ciPassing THEN 20 ELSE 0)
        s2 == s1 + (IF factors.testsAdded THEN 15 ELSE 0)
        s3 == s2 + (IF factors.diffSize < 300 THEN 10 ELSE 0)
        s4 == s3 + (IF factors.descriptionLength > 300 THEN 10 ELSE 0)
        s5 == s4 - (IF factors.highRiskModules THEN 15 ELSE 0)
        s6 == s5 - (IF ~factors.hasTests THEN 20 ELSE 0)
        s7 == s6 - (IF factors.diffSize > 1000 THEN 10 ELSE 0)
        s8 == s7 + adjustment(reviewResult)
    IN  s8

\* A calculateScore whose small-diff test is <= 300, of which
\* ScoreWithoutReviewIsFormula must not hold.
calculateScoreInclusive(factors, reviewResult) ==
    LET s1 == BaseScore + (IF factors.ciPassing THEN 20 ELSE 0)
        s2 == s1 + (IF factors.testsAdded THEN 15 ELSE 0)
        s3 == s2 + (IF factors.diffSize <= 300 THEN 10 ELSE 0)
        s4 == s3 + (IF factors.descriptionLength > 300 THEN 10 ELSE 0)
        s5 == s4 - (IF factors.highRiskModules THEN 15 ELSE 0)
        s6 == s5 - (IF ~factors.hasTests THEN 20 ELSE 0)
        s7 == s6 - (IF factors.diffSize > 1000 THEN 10 ELSE 0)
        s8 == s7 + adjustment(reviewResult)
    IN  Max(0, Min(100, s8))

\* A calculateScore without the small-diff term, of which
\* ZeroFactorsScoreForty must not hold.
calculateScoreNoSmallDiff(factors, reviewResult) ==
    LET s1 == BaseScore + (IF factors.ciPassing THEN 20 ELSE 0)
        s2 == s1 + (IF factors.testsAdded THEN 15 ELSE 0)
        s3 == s2 + (IF factors.diffSize < 300 THEN 0 ELSE 0)
        s4 == s3 + (IF factors.descriptionLength > 300 THEN 10 ELSE 0)
        s5 == s4 - (IF factors.highRiskModules THEN 15 ELSE 0)
        s6 == s5 - (IF ~factors.hasTests THEN 20 ELSE 0)
        s7 == s6 - (IF factors.diffSize > 1000 THEN 10 ELSE 0)
        s8 == s7 + adjustment(reviewResult)
    IN  Max(0, Min(100, s8))

\* A calculateScore that rewards a diff above 1000 lines, of which
\* ScoreIsMonotonic must not hold.
calculateScoreLargeDiffBonus(factors, reviewResult) ==
    LET s1 == BaseScore + (IF factors.ciPassing THEN 20 ELSE 0)
        s2 == s1 + (IF factors.testsAdded THEN 15 ELSE 0)
        s3 == s2 + (IF factors.diffSize < 300 THEN 10 ELSE 0)
        s4 == s3 + (IF factors.descriptionLength > 300 THEN 10 ELSE 0)
        s5 == s4 - (IF factors.highRiskModules THEN 15 ELSE 0)
        s6 == s5 - (IF ~factors.hasTests THEN 20 ELSE 0)
        s7 == s6 + (IF factors.diffSize > 1000 THEN 10 ELSE 0)
        s8 == s7 + adjustment(reviewResult)
    IN  Max(0, Min(100, s8))

\* calculateScore(factors, reviewResult)
calculateScore(factors, reviewResult) ==
    LET s1 == BaseScore + (IF factors.ciPassing THEN 20 ELSE 0)
        s2 == s1 + (IF factors.testsAdded THEN 15 ELSE 0)
        s3 == s2 + (IF factors.diffSize < 300 THEN 10 ELSE 0)
        s4 == s3 + (IF factors.descriptionLength > 300 THEN 10 ELSE 0)
        s5 == s4 - (IF factors.highRiskModules THEN 15 ELSE 0)
        s6 == s5 - (IF ~factors.hasTests THEN 20 ELSE 0)
        s7 == s6 - (IF factors.diffSize > 1000 THEN 10 ELSE 0)
        s8 == s7 + adjustment(reviewResult)
    IN  Max(0, Min(100, s8))

\* Changed files of a pull request, as getPullRequestFiles may list them.
FileLists == { << >>, <<AuthPath, TestPath>> }

\* The pull requests of the payload: additions, deletions and the length of
\* the description.
PullRequests ==
    { [additions |-> 0, deletions |-> 0, bodyLength |-> 0],
      [additions |-> 40, deletions |-> 20, bodyLength |-> 400] }

\* ------------------------------------------------------------------- state
VARIABLES
    cfg,                \* the action's inputs (index.ts lines 13-19)
    ev,                 \* github.context once run() has read it (line 38)
    pc,                 \* where run() stands
    status,             \* "running", "completed" or "failed" (core.setFailed)
    failure,            \* the call whose error reached run()'s catch
    pool,               \* db.ts: the module-level pool exists
    store,              \* the rows of the items table
    files,              \* run(): fileNames of the pull request
    currentSummary,     \* detectDuplicates: currentSummary
    currentEmbedding,   \* detectDuplicates: currentEmbedding
    items,              \* detectDuplicates: the fetched items still to visit
    visited,            \* detectDuplicates: the similarities computed so far
    candidates,         \* detectDuplicates: candidates
    candidateSummary,   \* detectDuplicates: candidateSummary of the loop body
    duplicateResult,    \* run(): duplicateResult
    classified,         \* the candidate number given to classifyDuplicate
    labelsToApply,      \* run(): labelsToApply (the argument of addLabels)
    scoringFactors,     \* the ScoringFactors given to calculateScore
    review,             \* run(): reviewResult and score
    comments,           \* comments created on the tracker, in order
    itemLabels,         \* labels attached to the triggering item
    trace,              \* the outbound calls made, in order
    errors              \* the outbound calls that failed

envVars == <<cfg, store, pool>>
locals == <<currentSummary, currentEmbedding, items, visited, candidates,
            candidateSummary>>
outVars == <<labelsToApply, scoringFactors, review, comments, itemLabels>>
vars == <<cfg, ev, pc, status, failure, pool, store, files, currentSummary,
          currentEmbedding, items, visited, candidates, candidateSummary,
          duplicateResult, classified, labelsToApply, scoringFactors, review,
          comments, itemLabels, trace, errors>>

EventNames == {"issues", "pull_request", "pull_request_target", "push"}
Actions == {"opened", "edited", "synchronize", "closed"}

LabelDuplicate == "possible-duplicate"
LabelNeedsTests == "needs-tests"
LabelHighRisk == "high-risk"
LabelReady == "ready-for-review"

NoReview == [present |-> FALSE]
\* No ScoringFactors object has been built yet.
NoFactors == [built |-> FALSE]
\* github.context before run() reads it.
NoEvent ==
    [name |-> "", action |-> "", hasItem |-> FALSE, number |-> NoItem]

\* The events a run may be triggered by; the payload of an event without an
\* issue or pull request carries no number.
Events ==
    { e \in [name : EventNames, action : Actions, hasItem : BOOLEAN,
             number : TriggerNumbers \cup {NoItem}] :
        e.hasItem <=> e.number # NoItem }

\* The type detectDuplicates is called with.
ItemKind == IF ev.name = "issues" THEN "issue" ELSE "pr"

Init ==
    /\ cfg \in [key : BOOLEAN, db : BOOLEAN, dedupe : BOOLEAN,
                review : BOOLEAN, thr : Thresholds, cap : 1..MaxCap]
    /\ ev = NoEvent
    /\ pc = "start"
    /\ status = "running"
    /\ failure = "none"
    /\ pool = FALSE
    /\ store \in IF cfg.db THEN InitialStores ELSE { {} }
    /\ files = << >>
    /\ currentSummary = NoSummary
    /\ currentEmbedding = NoEmbedding
    /\ items = << >>
    /\ visited = << >>
    /\ candidates = << >>
    /\ candidateSummary = NoSummary
    /\ duplicateResult = NullResult
    /\ classified = NoItem
    /\ labelsToApply = << >>
    /\ scoringFactors = NoFactors
    /\ review = NoReview
    /\ comments = << >>
    /\ itemLabels = {}
    /\ trace = << >>
    /\ errors = {}

\* run() returns normally.
Complete == status' = "completed" /\ failure' = failure /\ pc' = "done"

\* An error reached run()'s catch: core.setFailed.
Fail(cause) == status' = "failed" /\ failure' = cause /\ pc' = "done"

Continue(next) == status' = status /\ failure' = failure /\ pc' = next

\* One outbound call, and whether it failed.
Called(name, failed) ==
    /\ trace' = Append(trace, name)
    /\ errors' = IF failed THEN errors \cup {name} ELSE errors

\* A run() whose API key input is not required, of which
\* MissingKeyFailsBeforeAnyOutput must not hold.
ReadInputsUnchecked ==
    /\ pc = "start"
    /\ Continue(IF cfg.db THEN "dbinit" ELSE "route")
    /\ UNCHANGED <<envVars, ev, files, locals, duplicateResult, classified,
                   outVars, trace, errors>>

\* ---------------------------------------------------------------- index.ts
\* Lines 13-29: core.getInput('openai_key', {required: true}) throws when the
\* input is missing.
ReadInputs ==
    /\ pc = "start"
    /\ IF ~cfg.key THEN Fail("input")
       ELSE Continue(IF cfg.db THEN "dbinit" ELSE "route")
    /\ UNCHANGED <<envVars, ev, files, locals, duplicateResult, classified,
                   outVars, trace, errors>>

\* Lines 32-35: getDatabase(databaseUrl), then initializeDatabase(db), whose
\* db.connect() stands outside its try and whose queries stand inside it.
InitDatabase ==
    /\ pc = "dbinit"
    /\ pool' = TRUE
    /\ \E outcome \in {"ok", "connect fails", "query fails"} :
         IF outcome = "connect fails"
         THEN /\ Fail("store.connect")
              /\ Called("store.connect", TRUE)
         ELSE /\ Continue("route")
              /\ trace' = trace \o <<"store.connect", "store.init">>
              /\ errors' = IF outcome = "query fails"
                           THEN errors \cup {"store.init"} ELSE errors
    /\ UNCHANGED <<cfg, store, ev, files, locals, duplicateResult,
                   classified, outVars>>

IsPullRequestEvent(e) == e.name \in {"pull_request", "pull_request_target"}

\* Lines 38-53 and 87-98: github.context is read, and the event routed.
Route ==
    /\ pc = "route"
    /\ \E e \in Events :
         /\ ev' = e
         /\ IF e.name = "issues" /\ cfg.dedupe
            THEN IF ~e.hasItem \/ e.action \notin {"opened", "edited"}
                 THEN Complete
                 ELSE Continue("d_sum")
            ELSE IF IsPullRequestEvent(e)
                 THEN IF ~e.hasItem
                         \/ e.action \notin {"opened", "synchronize"}
                      THEN Complete
                      ELSE Continue("files")
                 ELSE Complete
    /\ UNCHANGED <<envVars, files, locals, duplicateResult, classified,
                   outVars, trace, errors>>

\* After the duplicate detection of a pull request (lines 131-183).
AfterDedupe(labels) ==
    IF cfg.review THEN Continue("review")
    ELSE IF labels = << >> THEN Complete ELSE Continue("labels")

\* Lines 103-106: getPullRequestFiles, which returns [] on failure.
GetPullRequestFiles ==
    /\ pc = "files"
    /\ \/ /\ Called("tracker.files", TRUE)
          /\ files' = << >>
       \/ \E fs \in FileLists :
            /\ Called("tracker.files", FALSE)
            /\ files' = fs
    /\ IF cfg.dedupe THEN Continue("d_sum") ELSE AfterDedupe(labelsToApply)
    /\ UNCHANGED <<envVars, ev, locals, duplicateResult, classified, outVars>>

\* --------------------------------------------------------------- dedupe.ts
\* detectDuplicates returns: its locals are gone.
DropLocals ==
    /\ currentSummary' = NoSummary
    /\ currentEmbedding' = NoEmbedding
    /\ items' = << >>
    /\ visited' = << >>
    /\ candidates' = << >>
    /\ candidateSummary' = NoSummary

\* A detectDuplicates that rethrows to run(), of which
\* EmbeddingFailureYieldsNull must not hold.
DetectionRethrows ==
    /\ duplicateResult' = NullResult
    /\ DropLocals
    /\ Fail("embed")

\* The catch of detectDuplicates (lines 131-134): log and return null.
DetectionFailed ==
    /\ duplicateResult' = NullResult
    /\ DropLocals
    /\ Continue("detected")

\* Lines 110-114: the sort and the empty check.
FinishSourcing(cands) ==
    LET sorted == SortBySimilarity(cands)
    IN  /\ candidates' = sorted
        /\ Continue(IF sorted = << >> THEN "d_none" ELSE "d_classify")

RECURSIVE SkipCurrent(_, _)
\* if (item.number === itemNumber) continue;
SkipCurrent(its, itemNumber) ==
    IF its # << >> /\ Head(its) = itemNumber
    THEN SkipCurrent(Tail(its), itemNumber)
    ELSE its

\* Line 29: generateSummary for the current item.
SummarizeCurrent ==
    /\ pc = "d_sum"
    /\ \E reply \in SummaryReplies :
         /\ currentSummary' =
                generateSummary(TitleOf(ev.number), files, reply)
         /\ Called("chat.summary", reply.kind # "json")
    /\ Continue("d_emb")
    /\ UNCHANGED <<envVars, ev, files, currentEmbedding, items, visited,
                   candidates, candidateSummary, duplicateResult, classified,
                   outVars>>

\* Line 33: generateEmbedding for the current item; it rethrows a failure,
\* which detectDuplicates catches.
EmbedCurrent ==
    /\ pc = "d_emb"
    /\ \/ /\ Called("embed", TRUE)
          /\ DetectionFailed
       \/ \E e \in EmbeddingSamples :
            /\ Called("embed", FALSE)
            /\ currentEmbedding' = e
            /\ Continue(IF cfg.db THEN "d_upsert" ELSE "d_list")
            /\ UNCHANGED <<currentSummary, items, visited, candidates,
                           candidateSummary, duplicateResult>>
    /\ UNCHANGED <<envVars, ev, files, classified, outVars>>

\* A stateful detection that queries without storing the current item, of
\* which OneSourcingModePerRun must not hold.
QueryWithoutUpsert ==
    /\ pc = "d_upsert"
    /\ pool' = TRUE
    /\ Continue("d_select")
    /\ UNCHANGED <<cfg, store, ev, files, locals, duplicateResult, classified,
                   outVars, trace, errors>>

\* Lines 40-51: getDatabase, then storeSimilarityItem, which catches its own
\* failure.
StoreCurrent ==
    /\ pc = "d_upsert"
    /\ pool' = TRUE
    /\ \E ok \in BOOLEAN :
         /\ Called("store.upsert", ~ok)
         /\ store' = IF ok
                     THEN Upsert(store,
                                 Row(ThisRepo, NumberToString(ev.number),
                                     ItemKind,
                                     TitleOf(ev.number),
                                     currentSummary.problem_statement,
                                     currentEmbedding, FALSE))
                     ELSE store
    /\ Continue("d_select")
    /\ UNCHANGED <<cfg, ev, files, locals, duplicateResult, classified,
                   outVars>>

\* Lines 54-69 and 110-114: findSimilarItems (which returns [] on failure),
\* the filter and map, the sort and the empty check.
FindSimilar ==
    /\ pc = "d_select"
    /\ \/ /\ Called("store.select", TRUE)
          /\ FinishSourcing(<< >>)
       \/ \E rs \in SelectResults(store, currentEmbedding, ThisRepo,
                                   ItemKind, cfg.cap) :
            /\ Called("store.select", FALSE)
            /\ FinishSourcing(RowsToCandidates(rs, currentEmbedding,
                                               ev.number))
    /\ UNCHANGED <<envVars, ev, files, currentSummary, currentEmbedding,
                   items, visited, candidateSummary, duplicateResult,
                   classified, outVars>>

RECURSIVE Descending(_)
\* The numbers of set S, highest (newest) first.
Descending(S) ==
    IF S = {} THEN << >>
    ELSE LET m == CHOOSE x \in S : \A y \in S : y <= x
         IN  <<m>> \o Descending(S \ {m})

\* What the tracker may list: at most per_page items, newest first.
Listings(perPage) ==
    { Descending(S) : S \in { T \in SUBSET ItemNumbers :
                                Cardinality(T) <= perPage } }

\* Lines 74-86: getRecentIssues or getRecentPullRequests (each returns [] on
\* failure), then the loop up to its first item that is not the current one.
ListRecent ==
    /\ pc = "d_list"
    /\ \/ /\ Called("tracker.list", TRUE)
          /\ items' = << >>
          /\ FinishSourcing(candidates)
       \/ \E listed \in Listings(cfg.cap) :
            LET rest == SkipCurrent(listed, ev.number)
            IN  /\ Called("tracker.list", FALSE)
                /\ items' = rest
                /\ IF rest = << >>
                   THEN FinishSourcing(candidates)
                   ELSE /\ Continue("d_csum")
                        /\ UNCHANGED candidates
    /\ UNCHANGED <<envVars, ev, files, currentSummary, currentEmbedding,
                   visited, candidateSummary, duplicateResult, classified,
                   outVars>>

\* A candidate summary that is asked for again when the call fails, of which
\* NoLlmCallIsRepeated must not hold.
SummarizeCandidateAgain ==
    /\ pc = "d_csum"
    /\ \E reply \in SummaryReplies :
         /\ candidateSummary' =
                generateSummary(TitleOf(Head(items)), << >>, reply)
         /\ Called("chat.summary", reply.kind # "json")
         /\ Continue(IF reply.kind # "json" /\ "chat.summary" \notin errors
                     THEN "d_csum" ELSE "d_cemb")
    /\ UNCHANGED <<envVars, ev, files, currentSummary, currentEmbedding,
                   items, visited, candidates, duplicateResult, classified,
                   outVars>>

\* Lines 88-93: generateSummary for the candidate at the head of the loop.
SummarizeCandidate ==
    /\ pc = "d_csum"
    /\ \E reply \in SummaryReplies :
         /\ candidateSummary' =
                generateSummary(TitleOf(Head(items)), << >>, reply)
         /\ Called("chat.summary", reply.kind # "json")
    /\ Continue("d_cemb")
    /\ UNCHANGED <<envVars, ev, files, currentSummary, currentEmbedding,
                   items, visited, candidates, duplicateResult, classified,
                   outVars>>

\* Lines 95-107: generateEmbedding for the candidate, its similarity, the
\* threshold test, and the loop's advance to the next item.
EmbedCandidate ==
    /\ pc = "d_cemb"
    /\ \/ /\ Called("embed", TRUE)
          /\ DetectionFailed
       \/ \E e \in EmbeddingSamples :
            LET item == Head(items)
                similarity == calculateCosineSimilarity(currentEmbedding, e)
                kept == IF MeetsThreshold(similarity, cfg.thr)
                        THEN Append(candidates,
                                    Candidate(item, TitleOf(item),
                                        candidateSummary.problem_statement,
                                        similarity))
                        ELSE candidates
                rest == SkipCurrent(Tail(items), ev.number)
            IN  /\ Called("embed", FALSE)
                /\ IF similarity = SimilarityError
                   THEN DetectionFailed
                   ELSE /\ items' = rest
                        /\ visited' = Append(visited,
                               [number |-> item, similarity |-> similarity])
                        /\ candidateSummary' = NoSummary
                        /\ UNCHANGED <<currentSummary, currentEmbedding,
                                       duplicateResult>>
                        /\ IF rest = << >>
                           THEN FinishSourcing(kept)
                           ELSE /\ candidates' = kept
                                /\ Continue("d_csum")
    /\ UNCHANGED <<envVars, ev, files, classified, outVars>>

\* Lines 114-117: no candidate is left, detectDuplicates returns null.
ReturnNull ==
    /\ pc = "d_none"
    /\ duplicateResult' = NullResult
    /\ DropLocals
    /\ Continue("detected")
    /\ UNCHANGED <<envVars, ev, files, classified, outVars, trace, errors>>

\* Lines 120-127: classifyDuplicate on candidates[0], which never throws;
\* its result is what detectDuplicates is about to return.
Classify ==
    /\ pc = "d_classify"
    /\ LET topCandidate == TopCandidate(candidates)
       IN  /\ classified' = topCandidate.number
           /\ \E reply \in ClassifyReplies(topCandidate.number) :
                /\ duplicateResult' = classifyDuplicate(reply)
                /\ Called("chat.classify", reply.kind # "json")
    /\ Continue("d_return")
    /\ UNCHANGED <<envVars, ev, files, locals, outVars>>

\* Lines 129-130: detectDuplicates returns the classification.
ReturnResult ==
    /\ pc = "d_return"
    /\ DropLocals
    /\ Continue("detected")
    /\ UNCHANGED <<envVars, ev, files, duplicateResult, classified, outVars,
                   trace, errors>>

\* --------------------------------------------------------------- review.ts
\* Replies to the review prompt.
ReviewReplies ==
    { ChatError, ChatNotJson,
      [kind |-> "json", risk_level |-> "low", missing_tests |-> FALSE,
       readiness_score |-> 100],
      [kind |-> "json", risk_level |-> "low", missing_tests |-> TRUE,
       readiness_score |-> 100],
      [kind |-> "json", risk_level |-> "high", missing_tests |-> TRUE,
       readiness_score |-> 0] }

\* reviewPullRequest: the parsed review, or a default review when the call
\* or the parse fails.
reviewPullRequest(reply) ==
    IF reply.kind = "json"
    THEN [present |-> TRUE, risk_level |-> reply.risk_level,
          missing_tests |-> reply.missing_tests,
          readiness_score |-> reply.readiness_score]
    ELSE [present |-> TRUE, risk_level |-> "medium", missing_tests |-> FALSE,
          readiness_score |-> 50]

\* ------------------------------------------------------- index.ts, go on
IsClass(result, class) == ~result.isNull /\ result.classification = class

\* Lines 71-83 and 123-128: what run() does with duplicateResult.
HandleResult ==
    /\ pc = "detected"
    /\ IF ItemKind = "issue"
       THEN IF IsClass(duplicateResult, "duplicate")
               \/ IsClass(duplicateResult, "related")
            THEN Continue("comment")
            ELSE Complete
       ELSE IF IsClass(duplicateResult, "duplicate")
            THEN Continue("comment")
            ELSE AfterDedupe(labelsToApply)
    /\ UNCHANGED <<envVars, ev, files, locals, duplicateResult, classified,
                   outVars, trace, errors>>

\* A comment created on the triggering item: its template, and what the
\* template writes (the duplicate template alone writes a confidence).
\* A comment created on the canonical item instead of the triggering one, of
\* which TrackerWritesOnlyAdd must not hold.
CommentOnCanonical(kind, canonical, confidence) ==
    [kind |-> kind, on |-> canonical, canonical_item |-> canonical,
     confidence |-> confidence]

Comment(kind, canonical, confidence) ==
    [kind |-> kind, on |-> ev.number, canonical_item |-> canonical,
     confidence |-> confidence]

\* Lines 72-80 and 124-127: createComment with the duplicate (or related)
\* template; createComment rethrows a failure.  Then the duplicate label:
\* the argument of addLabels for an issue, pushed on labelsToApply for a
\* pull request.
PostDuplicateComment ==
    /\ pc = "comment"
    /\ \/ /\ Called("tracker.comment", TRUE)
          /\ Fail("tracker.comment")
          /\ UNCHANGED <<comments, labelsToApply>>
       \/ /\ Called("tracker.comment", FALSE)
          /\ comments' = Append(comments,
                 Comment(duplicateResult.classification,
                         duplicateResult.canonical_item,
                         IF duplicateResult.classification = "duplicate"
                         THEN duplicateResult.confidence ELSE 0))
          /\ IF duplicateResult.classification = "duplicate"
             THEN /\ labelsToApply' = Append(labelsToApply, LabelDuplicate)
                  /\ IF ItemKind = "issue" THEN Continue("labels")
                     ELSE AfterDedupe(labelsToApply')
             ELSE /\ labelsToApply' = labelsToApply
                  /\ Complete
    /\ UNCHANGED <<envVars, ev, files, locals, duplicateResult, classified,
                   scoringFactors, review, itemLabels>>

\* A review that selects the ready label from a score of 70, of which
\* LabelsFollowReviewAndDetection must not hold.
ReviewReadyFromSeventy ==
    /\ pc = "review"
    /\ \E reply \in ReviewReplies, pr \in PullRequests :
         LET reviewResult == reviewPullRequest(reply)
             diffSize == pr.additions + pr.deletions
             descriptionLength == pr.bodyLength
             hasTests == detectTests(files)
             highRiskModules == detectHighRiskModules(files)
             factors == [ciPassing |-> FALSE, testsAdded |-> hasTests,
                         diffSize |-> diffSize,
                         descriptionLength |-> descriptionLength,
                         highRiskModules |-> highRiskModules,
                         hasTests |-> hasTests]
             score == calculateScore(factors, reviewResult)
             l1 == IF reviewResult.missing_tests
                   THEN Append(labelsToApply, LabelNeedsTests)
                   ELSE labelsToApply
             l2 == IF reviewResult.risk_level = "high"
                   THEN Append(l1, LabelHighRisk) ELSE l1
             l3 == IF score >= 70 THEN Append(l2, LabelReady) ELSE l2
         IN  /\ Called("chat.review", reply.kind # "json")
             /\ scoringFactors' = factors
             /\ review' = [present |-> TRUE, result |-> reviewResult,
                           score |-> score]
             /\ labelsToApply' = l3
    /\ Continue("rcomment")
    /\ UNCHANGED <<envVars, ev, files, locals, duplicateResult, classified,
                   comments, itemLabels>>

\* Lines 133-172: reviewPullRequest, the score and the labels it selects.
Review ==
    /\ pc = "review"
    /\ \E reply \in ReviewReplies, pr \in PullRequests :
         LET reviewResult == reviewPullRequest(reply)
             diffSize == pr.additions + pr.deletions
             descriptionLength == pr.bodyLength
             hasTests == detectTests(files)
             highRiskModules == detectHighRiskModules(files)
             factors == [ciPassing |-> FALSE, testsAdded |-> hasTests,
                         diffSize |-> diffSize,
                         descriptionLength |-> descriptionLength,
                         highRiskModules |-> highRiskModules,
                         hasTests |-> hasTests]
             score == calculateScore(factors, reviewResult)
             l1 == IF reviewResult.missing_tests
                   THEN Append(labelsToApply, LabelNeedsTests)
                   ELSE labelsToApply
             l2 == IF reviewResult.risk_level = "high"
                   THEN Append(l1, LabelHighRisk) ELSE l1
             l3 == IF score >= 80 THEN Append(l2, LabelReady) ELSE l2
         IN  /\ Called("chat.review", reply.kind # "json")
             /\ scoringFactors' = factors
             /\ review' = [present |-> TRUE, result |-> reviewResult,
                           score |-> score]
             /\ labelsToApply' = l3
    /\ Continue("rcomment")
    /\ UNCHANGED <<envVars, ev, files, locals, duplicateResult, classified,
                   comments, itemLabels>>

\* A review comment whose failure is swallowed, of which
\* LabelsOnlyAfterAllComments must not hold.
PostReviewCommentSwallowed ==
    /\ pc = "rcomment"
    /\ \/ /\ Called("tracker.comment", TRUE)
          /\ IF labelsToApply = << >> THEN Complete ELSE Continue("labels")
          /\ UNCHANGED comments
       \/ /\ Called("tracker.comment", FALSE)
          /\ comments' = Append(comments, Comment("review", NoItem, 0))
          /\ IF labelsToApply = << >> THEN Complete ELSE Continue("labels")
    /\ UNCHANGED <<envVars, ev, files, locals, duplicateResult, classified,
                   labelsToApply, scoringFactors, review, itemLabels>>

\* Lines 175-182: createComment with the review, then the labels if any.
PostReviewComment ==
    /\ pc = "rcomment"
    /\ \/ /\ Called("tracker.comment", TRUE)
          /\ Fail("tracker.comment")
          /\ UNCHANGED comments
       \/ /\ Called("tracker.comment", FALSE)
          /\ comments' = Append(comments, Comment("review", NoItem, 0))
          /\ IF labelsToApply = << >> THEN Complete ELSE Continue("labels")
    /\ UNCHANGED <<envVars, ev, files, locals, duplicateResult, classified,
                   labelsToApply, scoringFactors, review, itemLabels>>

RECURSIVE LabelCalls(_, _)
\* The calls of addLabels' loop: getLabel for each label and, when getLabel
\* threw, createLabel.
LabelCalls(labels, missing) ==
    IF labels = << >> THEN << >>
    ELSE (IF Head(labels) \in missing
          THEN <<"label.get", "label.create">> ELSE <<"label.get">>)
         \o LabelCalls(Tail(labels), missing)

SeqToSet(q) == { q[i] : i \in 1..Len(q) }

\* addLabels(client, number, labels): for each label getLabel and, when it
\* throws, createLabel (a failure is a warning); then one addLabels call for
\* all of them (a failure is a warning).  Nothing is rethrown.  The
\* repository has either all of the labels or none of them.
AddLabels ==
    /\ pc = "labels"
    /\ \E missing \in {{}, SeqToSet(labelsToApply)} :
       \E createFailed \in BOOLEAN :
       \E attached \in BOOLEAN :
         /\ createFailed => missing # {}
         /\ trace' = trace \o LabelCalls(labelsToApply, missing)
                           \o <<"label.attach">>
         /\ errors' = errors
                \cup (IF createFailed THEN {"label.create"} ELSE {})
                \cup (IF attached THEN {} ELSE {"label.attach"})
         /\ itemLabels' = IF attached
                          THEN itemLabels \cup SeqToSet(labelsToApply)
                          ELSE itemLabels
    /\ Complete
    /\ UNCHANGED <<envVars, ev, files, locals, duplicateResult, classified,
                   labelsToApply, scoringFactors, review, comments>>

Next ==
    \/ ReadInputs
    \/ InitDatabase
    \/ Route
    \/ GetPullRequestFiles
    \/ SummarizeCurrent
    \/ EmbedCurrent
    \/ StoreCurrent
    \/ FindSimilar
    \/ ListRecent
    \/ SummarizeCandidate
    \/ EmbedCandidate
    \/ ReturnNull
    \/ Classify
    \/ ReturnResult
    \/ HandleResult
    \/ PostDuplicateComment
    \/ Review
    \/ PostReviewComment
    \/ AddLabels

Spec == Init /\ [][Next]_vars

\* ------------------------------------------------- scoring.ts on its own
\* calculateScore is exported: what follows applies it to any factors and
\* any review result, not only to those run() builds.
\* The largest diff size and the distance of the readiness scores beyond
\* [0,100].
MaxDiffSize == 100000
Overshoot == 400

DiffSizes == {0, 60, 299, 300, 301, 1000, 1001, MaxDiffSize}
DescriptionLengths == {0, 300, 301, 400}
ReadinessScores ==
    {0 - Overshoot, 0, 3, 45, 47, 50, 53, 55, 97, 100, 100 + Overshoot}

\* The ScoringFactors objects; an absent optional flag is a false one.
FactorSamples ==
    [ciPassing : BOOLEAN, testsAdded : BOOLEAN, diffSize : DiffSizes,
     descriptionLength : DescriptionLengths, highRiskModules : BOOLEAN,
     hasTests : BOOLEAN]

\* The optional reviewResult argument: absent, or a review with a
\* readiness score.
NoReviewResult == [present |-> FALSE]
ReviewResultSamples ==
    {NoReviewResult}
    \cup { [present |-> TRUE, risk_level |-> "medium",
            missing_tests |-> FALSE, readiness_score |-> r] :
              r \in ReadinessScores }

ScoreInit ==
    /\ cfg = [key |-> TRUE, db |-> FALSE, dedupe |-> FALSE, review |-> TRUE,
              thr |-> DefaultThreshold, cap |-> MaxCap]
    /\ ev = NoEvent
    /\ pc = "score"
    /\ status = "running"
    /\ failure = "none"
    /\ pool = FALSE
    /\ store = {}
    /\ files = << >>
    /\ currentSummary = NoSummary
    /\ currentEmbedding = NoEmbedding
    /\ items = << >>
    /\ visited = << >>
    /\ candidates = << >>
    /\ candidateSummary = NoSummary
    /\ duplicateResult = NullResult
    /\ classified = NoItem
    /\ labelsToApply = << >>
    /\ scoringFactors \in FactorSamples
    /\ review = NoReview
    /\ comments = << >>
    /\ itemLabels = {}
    /\ trace = << >>
    /\ errors = {}

\* One call of calculateScore(factors, reviewResult?).
ApplyCalculateScore ==
    /\ pc = "score"
    /\ \E reviewResult \in ReviewResultSamples :
         review' = [present |-> TRUE, result |-> reviewResult,
                    score |-> calculateScore(scoringFactors, reviewResult)]
    /\ Continue("scored")
    /\ UNCHANGED <<envVars, ev, files, locals, duplicateResult, classified,
                   labelsToApply, scoringFactors, comments, itemLabels,
                   trace, errors>>

ScoreNext == ApplyCalculateScore

ScoreSpec == ScoreInit /\ [][ScoreNext]_vars

\* ------------------------------------------- the other exported functions
\* The variables of run() that a call of one exported function on its own
\* leaves at their initial values.
Idle ==
    /\ ev = NoEvent
    /\ status = "running"
    /\ failure = "none"
    /\ store = {}
    /\ currentSummary = NoSummary
    /\ items = << >>
    /\ candidates = << >>
    /\ candidateSummary = NoSummary
    /\ duplicateResult = NullResult
    /\ classified = NoItem
    /\ labelsToApply = << >>
    /\ review = NoReview
    /\ comments = << >>
    /\ itemLabels = {}
    /\ trace = << >>
    /\ errors = {}

idleVars == <<ev, status, failure, store, currentSummary, items,
              candidates, candidateSummary, duplicateResult, classified,
              labelsToApply, review, comments, itemLabels, trace, errors>>

\* The longest list of changed paths.
MaxFiles == 2

SamplePaths ==
    {AuthPath, TestPath, LatestPath, ContestPath, DunderPath, TestDirPath,
     SpecDirPath, SpecFilePath, MainPath, TestingPath}

PathLists == UNION { [1..n -> SamplePaths] : n \in 0..MaxFiles }

\* Inputs of a run that are of no weight for the function applied.
SomeCfg ==
    [key |-> TRUE, db |-> FALSE, dedupe |-> FALSE, review |-> TRUE,
     thr |-> DefaultThreshold, cap |-> MaxCap]

DetectInit ==
    /\ Idle
    /\ cfg = SomeCfg
    /\ pc = "detect"
    /\ pool = FALSE
    /\ files \in PathLists
    /\ currentEmbedding = NoEmbedding
    /\ visited = << >>
    /\ scoringFactors = NoFactors

\* detectTests(files) and detectHighRiskModules(files), as run() calls them
\* on lines 146-147.
ApplyDetect ==
    /\ pc = "detect"
    /\ pc' = "detect done"
    /\ scoringFactors' = [hasTests |-> detectTests(files),
                          highRiskModules |-> detectHighRiskModules(files)]
    /\ UNCHANGED <<idleVars, cfg, pool, files, currentEmbedding, visited>>

DetectNext == ApplyDetect

DetectSpec == DetectInit /\ [][DetectNext]_vars

\* --------------------------------------------- index.ts, reading the inputs
\* Numbers arrive as texts, sequences of characters; the text of an input
\* that is not there is empty.
DigitChars == <<"0", "1", "2", "3", "4", "5", "6", "7", "8", "9">>
IsDigit(c) == \E i \in 1..10 : DigitChars[i] = c
DigitOf(c) == (CHOOSE i \in 1..10 : DigitChars[i] = c) - 1
NotANumber == "NaN"

RECURSIVE LeadingDigits(_)
\* The digits a text starts with.
LeadingDigits(text) ==
    IF text # << >> /\ IsDigit(Head(text))
    THEN <<DigitOf(Head(text))>> \o LeadingDigits(Tail(text))
    ELSE << >>

\* parseInt(text): the number its leading digits spell, NaN without any.
parseInt(text) ==
    IF LeadingDigits(text) = << >> THEN NotANumber
    ELSE ParseDigits(LeadingDigits(text), 0)

\* parseFloat(text) in hundredths, for texts of digits with at most one
\* point and two decimals: NaN without any digit.
parseFloat(text) ==
    LET whole == LeadingDigits(text)
        rest == SubSeq(text, Len(whole) + 1, Len(text))
        decimals == IF rest # << >> /\ Head(rest) = "."
                    THEN LeadingDigits(Tail(rest)) ELSE << >>
        padded == SubSeq(decimals \o <<0, 0>>, 1, 2)
    IN  IF whole = << >> /\ decimals = << >> THEN NotANumber
        ELSE 100 * ParseDigits(whole, 0) + ParseDigits(padded, 0)

\* text || fallback
OrElse(text, fallback) == IF Len(text) = 0 THEN fallback ELSE text

\* A flag test that takes '1' for true, of which DefaultsWhenNotSupplied
\* must not hold.
IsOne(text) == text = "1"

\* core.getInput(name) === 'true'
IsTrue(text) == text = "true"

\* What a workflow may give the optional inputs in its with: block, each
\* empty when it gives nothing.
WorkflowInputs ==
    [similarity_threshold :
         {<< >>, <<"0", ".", "8">>, <<"0", ".", "8", "5">>, <<"1">>},
     max_candidates : {<< >>, <<"5">>, <<"2", "0">>, <<"a", "l", "l">>},
     enable_pr_review : {"", "true", "false"},
     enable_dedupe : {"", "true", "false"},
     label_duplicate : {"", "triage"},
     label_needs_tests : {"", "triage"},
     label_high_risk : {"", "triage"},
     label_ready : {"", "triage"}]

\* The default: entries of the action's metadata, which the host applies to
\* an input the workflow does not give.
MetadataDefault(name) ==
    CASE name = "similarity_threshold" -> <<"0", ".", "8", "5">>
      [] name = "max_candidates" -> <<"2", "0">>
      [] name = "enable_pr_review" -> "true"
      [] name = "enable_dedupe" -> "true"
      [] name = "label_duplicate" -> LabelDuplicate
      [] name = "label_needs_tests" -> LabelNeedsTests
      [] name = "label_high_risk" -> LabelHighRisk
      [] name = "label_ready" -> LabelReady

\* core.getInput(name): the workflow's text, or the metadata's default.
getInput(w, name) == OrElse(w[name], MetadataDefault(name))

\* Lines 13-25 of run(): the values it goes on with.
Inputs(w) ==
    [supplied |-> w,
     key |-> TRUE,
     db |-> FALSE,
     thr |-> parseFloat(OrElse(getInput(w, "similarity_threshold"),
                               <<"0", ".", "8", "5">>)),
     cap |-> parseInt(OrElse(getInput(w, "max_candidates"), <<"2", "0">>)),
     review |-> IsTrue(getInput(w, "enable_pr_review")),
     dedupe |-> IsTrue(getInput(w, "enable_dedupe")),
     labelDuplicate |-> OrElse(getInput(w, "label_duplicate"),
                               "possible-duplicate"),
     labelNeedsTests |-> OrElse(getInput(w, "label_needs_tests"),
                                "needs-tests"),
     labelHighRisk |-> OrElse(getInput(w, "label_high_risk"), "high-risk"),
     labelReady |-> OrElse(getInput(w, "label_ready"), "ready-for-review")]

InputInit ==
    /\ Idle
    /\ cfg \in { [supplied |-> w] : w \in WorkflowInputs }
    /\ pc = "inputs"
    /\ pool = FALSE
    /\ files = << >>
    /\ currentEmbedding = NoEmbedding
    /\ visited = << >>
    /\ scoringFactors = NoFactors

\* Lines 13-25 of run() with the API key given.
ApplyReadInputs ==
    /\ pc = "inputs"
    /\ pc' = "inputs read"
    /\ cfg' = Inputs(cfg.supplied)
    /\ UNCHANGED <<idleVars, pool, files, currentEmbedding, visited,
                   scoringFactors>>

InputNext == ApplyReadInputs

InputSpec == InputInit /\ [][InputNext]_vars

\* ------------------------------------ calculateCosineSimilarity on its own
\* The longest vector and the largest component.
MaxDim == 2
MaxComponent == 2

Vectors == UNION { [1..n -> (0 - 1)..MaxComponent] : n \in 0..MaxDim }

CosineInit ==
    /\ Idle
    /\ cfg = SomeCfg
    /\ pc = "cosine"
    /\ pool = FALSE
    /\ files = << >>
    /\ currentEmbedding \in Vectors
    /\ visited \in { <<[embedding |-> b]>> : b \in Vectors }
    /\ scoringFactors = NoFactors

\* calculateCosineSimilarity(currentEmbedding, candidateEmbedding)
ApplyCosine ==
    /\ pc = "cosine"
    /\ pc' = "cosine done"
    /\ visited' = <<[embedding |-> visited[1].embedding,
                     similarity |->
                         calculateCosineSimilarity(currentEmbedding,
                                                   visited[1].embedding)]>>
    /\ UNCHANGED <<idleVars, cfg, pool, files, currentEmbedding,
                   scoringFactors>>

CosineNext == ApplyCosine

CosineSpec == CosineInit /\ [][CosineNext]_vars

\* ------------------------------------- db.ts, getDatabase and closeDatabase
\* Here `pool` is the module-level variable itself: NoPool for null, else
\* the pool it refers to, pools being numbered as they are created; `trace`
\* is the history of the pool operations, and `items` holds the pools of the
\* closeDatabase calls that stand at their await.
\* The number of getDatabase and closeDatabase calls followed.
MaxCalls == 5

PoolsCreated == { trace[i].id : i \in { j \in 1..Len(trace) :
                                          trace[j].call = "new Pool" } }
PoolsEnded == { trace[i].id : i \in { j \in 1..Len(trace) :
                                        trace[j].call = "pool.end" } }
LivePools == PoolsCreated \ PoolsEnded
CallsMade ==
    Cardinality({ i \in 1..Len(trace) :
                    trace[i].call \in {"getDatabase", "closeDatabase"} })

PoolInit ==
    /\ ev = NoEvent
    /\ status = "running"
    /\ failure = "none"
    /\ store = {}
    /\ currentSummary = NoSummary
    /\ candidates = << >>
    /\ candidateSummary = NoSummary
    /\ duplicateResult = NullResult
    /\ classified = NoItem
    /\ labelsToApply = << >>
    /\ review = NoReview
    /\ comments = << >>
    /\ itemLabels = {}
    /\ errors = {}
    /\ cfg = SomeCfg
    /\ pc = "pool"
    /\ files = << >>
    /\ currentEmbedding = NoEmbedding
    /\ visited = << >>
    /\ scoringFactors = NoFactors
    /\ pool = NoPool
    /\ items = << >>
    /\ trace = << >>

poolFrame == <<cfg, ev, pc, status, failure, store, files, currentSummary,
               currentEmbedding, visited, candidates, candidateSummary,
               duplicateResult, classified, labelsToApply, scoringFactors,
               review, comments, itemLabels, errors>>

\* A getDatabase that makes a pool on every call, of which
\* AtMostOnePoolAtATime must not hold.
GetDatabaseAnew ==
    /\ CallsMade < MaxCalls
    /\ LET fresh == Cardinality(PoolsCreated) + 1
       IN  /\ pool' = fresh
           /\ trace' = trace \o <<[call |-> "new Pool", id |-> fresh],
                                   [call |-> "getDatabase", id |-> fresh]>>
    /\ UNCHANGED <<poolFrame, items>>

\* getDatabase(databaseUrl): if (!pool) pool = new Pool(...); return pool.
GetDatabase ==
    /\ CallsMade < MaxCalls
    /\ IF pool = NoPool
       THEN LET fresh == Cardinality(PoolsCreated) + 1
            IN  /\ pool' = fresh
                /\ trace' = trace \o <<[call |-> "new Pool", id |-> fresh],
                                        [call |-> "getDatabase",
                                         id |-> fresh]>>
       ELSE /\ pool' = pool
            /\ trace' = Append(trace, [call |-> "getDatabase", id |-> pool])
    /\ UNCHANGED <<poolFrame, items>>

\* closeDatabase(db) up to its await: nothing for a null db; db.end(), which
\* rejects for a pool already ended, so that the call throws.
CloseDatabase ==
    /\ CallsMade < MaxCalls
    /\ \E db \in PoolsCreated \cup {NoPool} :
         /\ trace' = trace
                \o <<[call |-> "closeDatabase", id |-> db]>>
                \o (IF db # NoPool /\ db \notin PoolsEnded
                    THEN <<[call |-> "pool.end", id |-> db]>> ELSE << >>)
         /\ items' = IF db # NoPool /\ db \notin PoolsEnded
                     THEN Append(items, db) ELSE items
    /\ UNCHANGED <<poolFrame, pool>>

\* closeDatabase(db) after its await: pool = null.
CloseDatabaseResumes ==
    /\ items # << >>
    /\ items' = Tail(items)
    /\ pool' = NoPool
    /\ trace' = Append(trace, [call |-> "closed", id |-> Head(items)])
    /\ UNCHANGED poolFrame

PoolNext ==
    \/ GetDatabase
    \/ CloseDatabase
    \/ CloseDatabaseResumes

PoolSpec == PoolInit /\ [][PoolNext]_vars

\* ============================================================== properties
\* The run made outbound call `name`.
Made(name) == \E i \in 1..Len(trace) : trace[i] = name

\* How many times the run made outbound call `name`.
TimesMade(name) == Cardinality({ i \in 1..Len(trace) : trace[i] = name })

\* A duplicate or related comment was posted.
DuplicateCommentPosted ==
    \E i \in 1..Len(comments) : comments[i].kind \in {"duplicate", "related"}

CommentIffDuplicateOrRelated ==
    (pc = "done" /\ status = "completed") =>
        (DuplicateCommentPosted <=>
            (IsClass(duplicateResult, "duplicate")
             \/ IsClass(duplicateResult, "related")))

\* ---------------------------------------------------------------------- C3
\* C3: a run in which an external call other than embedding generation
\* failed still completes.
OtherFailuresNeverFailTheRun ==
    (pc = "done" /\ errors \ {"embed"} # {}) => status = "completed"

\* ---------------------------------------------------------------------- C4
\* C4: in stateless mode the candidates left after the loop are exactly the
\* visited items whose similarity is at least the threshold (equality
\* included), in visiting order up to the sort; when there is none,
\* detectDuplicates is about to return null having made no classification
\* call, and a detection that returned without a classification call
\* returned null.
StatelessThresholdFilter ==
    ~cfg.db =>
        /\ pc \in {"d_none", "d_classify"} =>
              /\ { c.number : c \in SeqToSet(candidates) } =
                     { v.number : v \in
                         { w \in SeqToSet(visited) :
                             /\ w.similarity.num >= 0
                             /\ w.similarity.num * 10000 >=
                                    cfg.thr * cfg.thr * w.similarity.den } }
              /\ (pc = "d_none") = (candidates = << >>)
              /\ ~Made("chat.classify")
        /\ (pc = "detected" /\ ~Made("chat.classify")) =>
              duplicateResult = NullResult

\* A stateless run keeps a candidate whose similarity equals the threshold.
CandidateAtThresholdKept ==
    /\ ~cfg.db
    /\ pc = "d_classify"
    /\ cfg.thr = 80
    /\ Len(candidates) = 1
    /\ candidates[1].similarity = [num |-> 16, den |-> 25]

\* ---------------------------------------------------------------------- C5
\* C5: the classification call is made at most once in a run, and the
\* candidate it was made on is a surviving candidate whose similarity is at
\* least that of every other surviving candidate.
ClassifiesTopCandidateOnce ==
    /\ TimesMade("chat.classify") <= 1
    /\ Made("chat.classify") => classified # NoItem
    /\ pc = "d_return" =>
          \E i \in 1..Len(candidates) :
              /\ candidates[i].number = classified
              /\ \A j \in 1..Len(candidates) :
                     candidates[i].similarity.num * candidates[j].similarity.den
                         >= candidates[j].similarity.num
                                * candidates[i].similarity.den

\* The classified candidate was visited last and beats an earlier survivor.
LaterCandidateClassified ==
    /\ pc = "d_return"
    /\ ~cfg.db
    /\ Len(visited) = 2
    /\ Len(candidates) = 2
    /\ visited[2].number = classified
    /\ candidates[1].similarity # candidates[2].similarity

\* ---------------------------------------------------------------------- C6
\* C6: when detection classifies the item as duplicate, the canonical item
\* of the result and of the posted duplicate comment is the number of the
\* candidate that was classified.
CanonicalIsClassifiedCandidate ==
    /\ IsClass(duplicateResult, "duplicate") =>
          duplicateResult.canonical_item = classified
    /\ \A i \in 1..Len(comments) :
          comments[i].kind = "duplicate" =>
              comments[i].canonical_item = classified

\* ---------------------------------------------------------------------- C7
\* C7: every result detection returns has a classification among duplicate,
\* related, distinct and a confidence within [0,1] (0..100 hundredths).
ResultIsWellFormed ==
    ~duplicateResult.isNull =>
        /\ duplicateResult.classification \in Classifications
        /\ duplicateResult.confidence \in 0..100

\* ---------------------------------------------------------------------- C8
\* C8: when the classification call fails or its reply is not JSON, the
\* result is distinct with confidence 0 and no canonical item; the run
\* posts no duplicate/related comment, selects and attaches no duplicate
\* label, and does not fail on it (a pull-request run can fail only later,
\* on the creation of its review comment).
ClassifyFailureYieldsDistinct ==
    "chat.classify" \in errors =>
        /\ ~duplicateResult.isNull
        /\ duplicateResult.classification = "distinct"
        /\ duplicateResult.confidence = 0
        /\ duplicateResult.canonical_item = NoItem
        /\ ~DuplicateCommentPosted
        /\ LabelDuplicate \notin SeqToSet(labelsToApply) \cup itemLabels
        /\ status = "failed" => failure = "tracker.comment" /\ review.present
        /\ (pc = "done" /\ ev.name = "issues") => status = "completed"

\* A run whose classification call failed has completed.
ClassifyFailedRunCompleted ==
    /\ "chat.classify" \in errors
    /\ pc = "done"
    /\ status = "completed"
    /\ classified # NoItem

\* ---------------------------------------------------------------------- C9
\* C9, as the specification states it: the summary generateSummary returns
\* on a failure has the raw title as problem statement and its other fields
\* empty.
DefaultSummaryIsTitleOnly ==
    (pc = "d_emb" /\ "chat.summary" \in errors) =>
        currentSummary = [problem_statement |-> TitleOf(ev.number),
                          scope |-> EmptyText,
                          key_entities |-> << >>,
                          affected_files |-> << >>]

\* C9, as the code has it: generateSummary never propagates an error (the
\* run is still running after a failed call, for the current item and for a
\* candidate); the summary it returns on a failure has the raw title as
\* problem statement, scope "Unknown", no key entities, and as affected
\* files the file list its caller passed (empty for issues and candidates).
DefaultSummaryKeepsFiles ==
    /\ (pc = "d_emb" /\ "chat.summary" \in errors) =>
          /\ status = "running"
          /\ currentSummary = [problem_statement |-> TitleOf(ev.number),
                               scope |-> <<"Unknown", 0>>,
                               key_entities |-> << >>,
                               affected_files |-> files]
    /\ (pc = "d_cemb" /\ candidateSummary.problem_statement
                             = TitleOf(Head(items))) =>
          /\ status = "running"
          /\ "chat.summary" \in errors
          /\ candidateSummary = [problem_statement |-> TitleOf(Head(items)),
                                 scope |-> <<"Unknown", 0>>,
                                 key_entities |-> << >>,
                                 affected_files |-> << >>]
    /\ (status = "failed" /\ "chat.summary" \in errors) =>
          failure = "tracker.comment"

\* The summary call of a pull request with changed files has failed.
SummaryFailedWithFiles ==
    /\ pc = "d_emb"
    /\ "chat.summary" \in errors
    /\ files # << >>
    /\ currentSummary.affected_files = files

\* --------------------------------------------------------------------- C10
\* C10: with a connection string the tracker listing is never called and
\* every store query comes after an upsert of the run; without one no store
\* operation is made and no pool is created; and a detection that has
\* sourced its candidates has used exactly one of the two.
OneSourcingModePerRun ==
    /\ cfg.db =>
          /\ ~Made("tracker.list")
          /\ \A j \in 1..Len(trace) :
                 trace[j] = "store.select" =>
                     \E i \in 1..(j - 1) : trace[i] = "store.upsert"
    /\ ~cfg.db =>
          /\ \A j \in 1..Len(trace) :
                 trace[j] \notin {"store.connect", "store.init",
                                  "store.upsert", "store.select"}
          /\ ~pool
          /\ store = {}
    /\ pc \in {"d_none", "d_classify", "d_return"} =>
          /\ Made("store.select") = cfg.db
          /\ Made("tracker.list") = ~cfg.db

\* A stateful detection has queried the store.
StatefulQueried ==
    /\ cfg.db
    /\ pc = "d_classify"
    /\ Made("store.upsert")
    /\ Made("store.select")

\* --------------------------------------------------------------------- C11
\* C11: after a stateful query that succeeded, every candidate comes from an
\* open store row of this repository and of the item's kind, there are at
\* most max_candidates of them, they stand nearest first, and whenever the
\* store holds an open row of another item of this repository and kind
\* whose embedding is identical to the current item's, the first candidate
\* is such an item, with similarity 1.
StatefulCandidatesFromStore ==
    (cfg.db /\ pc \in {"d_none", "d_classify"}
            /\ "store.select" \notin errors) =>
        /\ Len(candidates) <= cfg.cap
        /\ \A i \in 1..Len(candidates) :
               \E r \in store :
                   /\ r.repo = ThisRepo
                   /\ r.type = ItemKind
                   /\ ~r.closed
                   /\ r.github_id = NumberToString(candidates[i].number)
                   /\ candidates[i].similarity =
                          calculateCosineSimilarity(r.embedding,
                                                    currentEmbedding)
        /\ \A i, j \in 1..Len(candidates) :
               i < j => candidates[i].similarity.num
                            * candidates[j].similarity.den
                        >= candidates[j].similarity.num
                            * candidates[i].similarity.den
        /\ (\E r \in store :
               /\ r.repo = ThisRepo
               /\ r.type = ItemKind
               /\ ~r.closed
               /\ r.github_id # NumberToString(ev.number)
               /\ r.embedding = currentEmbedding) =>
              /\ candidates # << >>
              /\ candidates[1].similarity.num = candidates[1].similarity.den
              /\ \E r \in store :
                     /\ r.repo = ThisRepo
                     /\ r.type = ItemKind
                     /\ r.github_id = NumberToString(candidates[1].number)
                     /\ r.embedding = currentEmbedding

\* --------------------------------------------------------------------- C12
\* The key of a row: UNIQUE(repo, github_id, type).
Key(r) == <<r.repo, r.github_id, r.type>>

\* C12: in every step of a run the store has one row per key before and
\* after it and loses no key; and the step of a successful upsert leaves
\* under the current item's key exactly the row with the latest title,
\* summary and embedding, every row of another key being as it was.
UpsertKeepsOneRowPerKey ==
    [][/\ \A r1, r2 \in store : Key(r1) = Key(r2) => r1 = r2
       /\ \A r1, r2 \in store' : Key(r1) = Key(r2) => r1 = r2
       /\ { Key(r) : r \in store } \subseteq { Key(r) : r \in store' }
       /\ (pc = "d_upsert" /\ "store.upsert" \notin errors') =>
             LET key == <<ThisRepo, NumberToString(ev.number), ItemKind>>
             IN  /\ { r \in store' : Key(r) # key }
                        = { r \in store : Key(r) # key }
                 /\ { r \in store' : Key(r) = key }
                        = { [repo |-> ThisRepo,
                             github_id |-> NumberToString(ev.number),
                             type |-> ItemKind,
                             title |-> TitleOf(ev.number),
                             summary |-> currentSummary.problem_statement,
                             embedding |-> currentEmbedding,
                             closed |-> FALSE] }
       /\ (pc # "d_upsert" \/ "store.upsert" \in errors') => store' = store
      ]_vars

\* A run has replaced the stored row of its item by one with another
\* embedding.
StoredRowReplaced ==
    /\ pc = "d_select"
    /\ "store.upsert" \notin errors
    /\ \E r \in PriorStore :
           /\ r \notin store
           /\ \E q \in store : Key(q) = Key(r) /\ q.embedding # r.embedding

\* --------------------------------------------------------------------- C13
\* The events run() acts on (index.ts lines 41-53 and 86-98); the context a
\* run has not read yet is none of them.
Handled(e) ==
    \/ e.name = "issues" /\ e.action \in {"opened", "edited"}
    \/ IsPullRequestEvent(e) /\ e.action \in {"opened", "synchronize"}

\* The LLM calls, the store write and the tracker writes.
ActingCalls ==
    {"chat.summary", "embed", "chat.classify", "chat.review", "store.upsert",
     "tracker.comment", "label.create", "label.attach"}

\* C13: a run configured with its API key whose event is not one of the
\* four handled (event, action) pairs makes no LLM call, no store write, no
\* comment and no label, and when it ends it has completed.
IgnoredEventsAreSkipped ==
    (cfg.key /\ ~Handled(ev)) =>
        /\ \A i \in 1..Len(trace) : trace[i] \notin ActingCalls
        /\ comments = << >>
        /\ itemLabels = {}
        /\ pc = "done" => status = "completed"

\* --------------------------------------------------------------------- C14
\* The calls run() makes to the tracker that read from it.
TrackerReads == {"tracker.list", "tracker.files", "label.get"}

\* The calls run() makes to the tracker that write to it: createComment,
\* createLabel and addLabels.
TrackerWrites == {"tracker.comment", "label.create", "label.attach"}

\* The calls run() makes to the LLM and to the store.
OtherCalls ==
    {"chat.summary", "embed", "chat.classify", "chat.review",
     "store.connect", "store.init", "store.upsert", "store.select"}

\* C14: in every step of a run, each call made is a tracker read, one of
\* the three tracker writes, or a call to the LLM or the store; the
\* comments of the tracker are as they were or have one more comment, on
\* the triggering item; and the labels of the item are as they were or have
\* more of the four configured labels.
TrackerWritesOnlyAdd ==
    [][/\ \A i \in 1..Len(trace') :
              trace'[i] \in TrackerReads \cup TrackerWrites \cup OtherCalls
       /\ \/ comments' = comments
          \/ /\ Len(comments') = Len(comments) + 1
             /\ SubSeq(comments', 1, Len(comments)) = comments
             /\ comments'[Len(comments')].on = ev.number
             /\ ev.number # NoItem
             /\ trace'[Len(trace')] = "tracker.comment"
       /\ itemLabels \subseteq itemLabels'
       /\ itemLabels' \subseteq {LabelDuplicate, LabelNeedsTests,
                                  LabelHighRisk, LabelReady}
       /\ itemLabels' # itemLabels => trace'[Len(trace')] = "label.attach"
      ]_vars

\* A run has commented on its item, created a label and attached labels.
CommentedAndLabelled ==
    /\ pc = "done"
    /\ Len(comments) = 2
    /\ Made("label.create")
    /\ itemLabels # {}

\* --------------------------------------------------------------------- C15
\* C15: a run without the API key makes no call at all (no LLM call, no
\* store operation, no tracker call), creates no pool, no comment and no
\* label, selects no label, reads no event, and ends, in its first step,
\* failed with the message of the missing input.
MissingKeyFailsBeforeAnyOutput ==
    ~cfg.key =>
        /\ trace = << >>
        /\ errors = {}
        /\ ~pool
        /\ comments = << >>
        /\ itemLabels = {}
        /\ labelsToApply = << >>
        /\ ev = NoEvent
        /\ pc \in {"start", "done"}
        /\ pc = "done" => status = "failed" /\ failure = "input"

\* A run without the API key has ended, with a store configured.
MissingKeyRunFailed ==
    /\ ~cfg.key
    /\ cfg.db
    /\ store # {}
    /\ pc = "done"
    /\ status = "failed"

\* ------------------------------------------------------------ C16 to C20
\* calculateScore has returned, and the review result it was given.
Scored == pc = "scored"
ScoredWith == review.result

\* Lines 213-250 as one sum: the base score and the seven heuristic terms.
Indicator(b) == IF b THEN 1 ELSE 0
HeuristicSum(f) ==
    50 + 20 * Indicator(f.ciPassing) + 15 * Indicator(f.testsAdded)
       + 10 * Indicator(f.diffSize < 300) - 10 * Indicator(f.diffSize > 1000)
       + 10 * Indicator(f.descriptionLength > 300)
       - 15 * Indicator(f.highRiskModules) - 20 * Indicator(~f.hasTests)
Clamp(x) == IF x < 0 THEN 0 ELSE IF x > 100 THEN 100 ELSE x

\* --------------------------------------------------------------------- C16
\* C16: whatever the factors (diff size 0 and the largest included) and
\* whether or not a review result is supplied, whatever its readiness
\* score, calculateScore returns a value within [0,100].
ScoreWithinBounds ==
    Scored => review.score \in 0..100

\* calculateScore was given the largest diff size and a readiness score
\* above 100: the heuristics alone are below 100 and the result is 100.
ClampedHighReadiness ==
    /\ Scored
    /\ ScoredWith.present
    /\ ScoredWith.readiness_score > 100
    /\ scoringFactors.diffSize = MaxDiffSize
    /\ calculateScore(scoringFactors, NoReviewResult) < 100
    /\ review.score = 100

\* --------------------------------------------------------------------- C17
\* C17: without a review result calculateScore returns
\* clamp(50 + 20 [CI passing] + 15 [tests added] + 10 [diffSize < 300]
\* - 10 [diffSize > 1000] + 10 [descriptionLength > 300] - 15 [high risk]
\* - 20 [no test-like path], 0, 100); diff sizes 300 and 1000 earn neither
\* diff term; and tests added, a test-like path, a high-risk path, 60
\* changed lines and a 400-character description score 70.
ScoreWithoutReviewIsFormula ==
    (Scored /\ ~ScoredWith.present) =>
        /\ review.score = Clamp(HeuristicSum(scoringFactors))
        /\ scoringFactors.diffSize \in {300, 1000} =>
              review.score =
                  calculateScore([scoringFactors EXCEPT !.diffSize = 500],
                                 NoReviewResult)
        /\ scoringFactors = [ciPassing |-> FALSE, testsAdded |-> TRUE,
                             diffSize |-> 60, descriptionLength |-> 400,
                             highRiskModules |-> TRUE, hasTests |-> TRUE] =>
              review.score = 70

\* The pull request of the example has been scored without a review.
ExampleScoredSeventy ==
    /\ Scored
    /\ ~ScoredWith.present
    /\ scoringFactors.testsAdded /\ scoringFactors.hasTests
    /\ scoringFactors.highRiskModules /\ ~scoringFactors.ciPassing
    /\ scoringFactors.diffSize = 60
    /\ scoringFactors.descriptionLength = 400
    /\ review.score = 70

\* --------------------------------------------------------------------- C18
\* Diff size 0, description length 0 and every flag false.
ZeroFactors ==
    [ciPassing |-> FALSE, testsAdded |-> FALSE, diffSize |-> 0,
     descriptionLength |-> 0, highRiskModules |-> FALSE, hasTests |-> FALSE]

\* C18, as the specification states it: for diff size 0, description length
\* 0, every flag false and no review result, calculateScore returns 30.
ZeroFactorsScoreThirty ==
    (Scored /\ ~ScoredWith.present /\ scoringFactors = ZeroFactors) =>
        review.score = 30

\* C18, as the code has it: for diff size 0, description length 0, every
\* flag false and no review result, calculateScore returns 40: the base 50,
\* plus 10 for a diff below 300 lines, minus 20 for no tests.
ZeroFactorsScoreForty ==
    (Scored /\ ~ScoredWith.present /\ scoringFactors = ZeroFactors) =>
        review.score = 40

\* calculateScore has been applied to the zero factors without a review.
ZeroFactorsScored ==
    /\ Scored
    /\ ~ScoredWith.present
    /\ scoringFactors = ZeroFactors
    /\ review.score = BaseScore + 10 - 20

\* --------------------------------------------------------------------- C19
\* The result of the same call with one factor replaced.
ScoreIfTestsAdded(b) ==
    calculateScore([scoringFactors EXCEPT !.testsAdded = b], ScoredWith)
ScoreIfDiffSize(d) ==
    calculateScore([scoringFactors EXCEPT !.diffSize = d], ScoredWith)

\* C19: with every other factor and the review result held fixed, the
\* result with tests added is never below the result without; the result
\* for a diff size above 1000 is never above the result for one at or below
\* 1000; and over all diff sizes a larger diff never scores higher.
ScoreIsMonotonic ==
    Scored =>
        /\ review.score = calculateScore(scoringFactors, ScoredWith)
        /\ ~scoringFactors.testsAdded =>
              ScoreIfTestsAdded(TRUE) >= review.score
        /\ scoringFactors.diffSize <= 1000 =>
              \A d \in DiffSizes : d > 1000 =>
                  ScoreIfDiffSize(d) <= review.score
        /\ \A d \in DiffSizes :
              d >= scoringFactors.diffSize =>
                  ScoreIfDiffSize(d) <= review.score

\* A call without tests added and with a diff of 1000 lines whose result
\* rises with tests added and falls with one more changed line.
StrictlyMonotonicCase ==
    /\ Scored
    /\ ~scoringFactors.testsAdded
    /\ scoringFactors.diffSize = 1000
    /\ ScoreIfTestsAdded(TRUE) > review.score
    /\ ScoreIfDiffSize(1001) < review.score

\* --------------------------------------------------------------------- C20
\* a is the integer nearest to (r - 50) * 0.3, a half going up as in
\* Math.round.
IsRoundedAdjustment(a, r) ==
    /\ 10 * a - 3 * (r - 50) > -5
    /\ 10 * a - 3 * (r - 50) <= 5

\* C20: when a review result is supplied, the result is the clamped sum of
\* the heuristics and an adjustment that is round((readiness_score - 50)
\* * 0.3) and lies within [-15, +15].
AdjustmentWithinFifteen ==
    (Scored /\ ScoredWith.present) =>
        \E a \in -15..15 :
            /\ IsRoundedAdjustment(a, ScoredWith.readiness_score)
            /\ review.score = Clamp(HeuristicSum(scoringFactors) + a)

\* --------------------------------------------------------------------- C21
\* The path has a directory segment of that name: the name stands between
\* the start of the path or a slash, and a slash.
HasDirectory(path, name) ==
    \E i \in 1..Len(path) :
        /\ i = 1 \/ path[i - 1] = "/"
        /\ i + Len(name) <= Len(path)
        /\ SubSeq(path, i, i + Len(name) - 1) = name
        /\ path[i + Len(name)] = "/"

\* A test-like path as the specification has it.
TestLike(path) ==
    \/ Contains(path, <<".", "t", "e", "s", "t", ".">>)
    \/ Contains(path, <<".", "s", "p", "e", "c", ".">>)
    \/ HasDirectory(path, <<"t", "e", "s", "t">>)
    \/ HasDirectory(path, <<"t", "e", "s", "t", "s">>)
    \/ HasDirectory(path, <<"s", "p", "e", "c">>)

\* C21: detectTests returns true exactly when some changed path contains
\* .test. or .spec. or has a directory segment named test, tests or spec; a
\* longer segment that ends in one of those words does not count.
DetectTestsMatchesSegments ==
    pc = "detect done" =>
        (scoringFactors.hasTests
            <=> \E f \in FilesOf(files) : TestLike(Chars(f)))

\* --------------------------------------------------------------------- C22
\* C22: an input the workflow does not give takes its default: max
\* candidates 20, similarity threshold 0.85, PR review enabled, duplicate
\* detection enabled, and the four default label names; with none given the
\* run has all of them.
DefaultsWhenNotSupplied ==
    pc = "inputs read" =>
        LET w == cfg.supplied
        IN  /\ w.max_candidates = << >> => cfg.cap = 20
            /\ w.similarity_threshold = << >> => cfg.thr = DefaultThreshold
            /\ w.enable_pr_review = "" => cfg.review
            /\ w.enable_dedupe = "" => cfg.dedupe
            /\ w.label_duplicate = "" =>
                  cfg.labelDuplicate = "possible-duplicate"
            /\ w.label_needs_tests = "" => cfg.labelNeedsTests = "needs-tests"
            /\ w.label_high_risk = "" => cfg.labelHighRisk = "high-risk"
            /\ w.label_ready = "" => cfg.labelReady = "ready-for-review"

\* A run has read its inputs from a workflow that gives none of the
\* optional ones.
NothingSuppliedRead ==
    /\ pc = "inputs read"
    /\ cfg.supplied.max_candidates = << >>
    /\ cfg.supplied.similarity_threshold = << >>
    /\ cfg.supplied.enable_pr_review = ""
    /\ cfg.supplied.enable_dedupe = ""
    /\ cfg.supplied.label_duplicate = ""
    /\ cfg.supplied.label_needs_tests = ""
    /\ cfg.supplied.label_high_risk = ""
    /\ cfg.supplied.label_ready = ""
    /\ cfg.cap = 20
    /\ cfg.review /\ cfg.dedupe

\* --------------------------------------------------------------------- C23
\* The calls that go to the LLM.
LlmCalls == {"chat.summary", "embed", "chat.classify", "chat.review"}
DetectionLlmCalls == LlmCalls \ {"chat.review"}

\* How many of the calls made so far are among `names`.
TimesMadeAmong(names) ==
    Cardinality({ i \in 1..Len(trace) : trace[i] \in names })

CosineDone == pc = "cosine done"
VectorA == currentEmbedding
VectorB == visited[1].embedding
CosineResult == visited[1].similarity

\* Every component of v is 0: v has zero magnitude.
IsZeroVector(v) == \A i \in 1..Len(v) : v[i] = 0

\* --------------------------------------------------------------------- C24
\* C24: calculateCosineSimilarity throws exactly when the two vectors
\* differ in length, and returns 0 when the lengths are equal and one of
\* the vectors has zero magnitude.
CosineFailsOrZero ==
    CosineDone =>
        /\ (CosineResult = SimilarityError) <=> (Len(VectorA) # Len(VectorB))
        /\ (Len(VectorA) = Len(VectorB)
               /\ (IsZeroVector(VectorA) \/ IsZeroVector(VectorB))) =>
              CosineResult = ZeroSimilarity

\* The function has been applied to a zero vector and a non-zero vector of
\* the same length.
ZeroAgainstNonZero ==
    /\ CosineDone
    /\ Len(VectorA) = MaxDim /\ Len(VectorB) = MaxDim
    /\ IsZeroVector(VectorA)
    /\ ~IsZeroVector(VectorB)
    /\ CosineResult = ZeroSimilarity

\* --------------------------------------------------------------------- C25
\* The similarity is exactly 1, or exactly 0.
IsOneSimilarity(x) == x.den > 0 /\ x.num = x.den
IsZeroSimilarity(x) == x.den > 0 /\ x.num = 0

\* The two vectors have the same length and their products sum to 0.
Orthogonal(a, b) == Len(a) = Len(b) /\ DotFrom(a, b, 1) = 0

\* C25, as the specification states it: for any vector v the similarity of
\* v with itself is 1, and for orthogonal vectors of equal length it is 0.
CosineOfAnyVectorWithItself ==
    CosineDone =>
        /\ VectorA = VectorB => IsOneSimilarity(CosineResult)
        /\ Orthogonal(VectorA, VectorB) => IsZeroSimilarity(CosineResult)

\* C25, as the code has it: for any vector v of non-zero magnitude the
\* similarity of v with itself is 1; for a vector of zero magnitude (the
\* empty vector included) it is 0; and for orthogonal vectors of equal
\* length it is 0.
CosineOfSelfAndOrthogonal ==
    CosineDone =>
        /\ (VectorA = VectorB /\ ~IsZeroVector(VectorA)) =>
              IsOneSimilarity(CosineResult)
        /\ (VectorA = VectorB /\ IsZeroVector(VectorA)) =>
              IsZeroSimilarity(CosineResult)
        /\ Orthogonal(VectorA, VectorB) => IsZeroSimilarity(CosineResult)

\* The function has been applied to a non-zero vector and itself, with
\* components that differ.
NonZeroVectorWithItself ==
    /\ CosineDone
    /\ VectorA = VectorB
    /\ Len(VectorA) = MaxDim
    /\ VectorA[1] = MaxComponent /\ VectorA[2] = 0 - 1
    /\ IsOneSimilarity(CosineResult)

\* --------------------------------------------------------------------- C26
\* The pools ended before place i of the history.
EndedBefore(i) ==
    { trace[j].id : j \in { k \in 1..(i - 1) : trace[k].call = "pool.end" } }
CreatedBefore(i) ==
    { trace[j].id : j \in { k \in 1..(i - 1) : trace[k].call = "new Pool" } }

\* C26: over any sequence of getDatabase and closeDatabase calls at most
\* one pool that has not been ended exists at a time; a pool is created
\* only inside getDatabase, only when the module-level variable is null,
\* and it is a new one; a getDatabase that creates none returns the pool
\* created last; and the first getDatabase after a closeDatabase that has
\* run to its end creates a pool.
AtMostOnePoolAtATime ==
    pc = "pool" =>
        /\ Cardinality(LivePools) <= 1
        /\ pool # NoPool => pool = Cardinality(PoolsCreated)
        /\ \A i \in 1..Len(trace) :
              /\ trace[i].call = "new Pool" =>
                    /\ CreatedBefore(i) \subseteq EndedBefore(i)
                    /\ trace[i].id \notin CreatedBefore(i)
                    /\ trace[i + 1] = [call |-> "getDatabase",
                                       id |-> trace[i].id]
              /\ trace[i].call = "getDatabase" =>
                    trace[i].id = Cardinality(CreatedBefore(i))
              /\ trace[i].call = "closed" =>
                    \A j \in (i + 1)..Len(trace) :
                        (/\ trace[j].call = "getDatabase"
                         /\ \A k \in (i + 1)..(j - 1) :
                                trace[k].call # "getDatabase") =>
                            /\ j - 1 > i
                            /\ trace[j - 1].call = "new Pool"

\* A pool was made, returned again by a second getDatabase, closed, and
\* the next getDatabase made a second pool.
SecondPoolAfterClose ==
    /\ pc = "pool"
    /\ Len(trace) = 8
    /\ trace[3] = [call |-> "getDatabase", id |-> 1]
    /\ trace[6].call = "closed"
    /\ trace[8] = [call |-> "getDatabase", id |-> 2]
    /\ LivePools = {2}

\* --------------------------------------------------------------------- C27
\* C27: once a pull-request run has made its review, the needs-tests label
\* is selected exactly when the review misses tests, the high-risk label
\* exactly when its risk level is high, the ready label exactly when the
\* score is at least 80, and the duplicate label exactly when detection
\* classified the pull request as duplicate; no label is selected twice.
LabelsFollowReviewAndDetection ==
    (review.present /\ pc \in {"rcomment", "labels", "done"}) =>
        LET selected == SeqToSet(labelsToApply)
        IN  /\ LabelNeedsTests \in selected <=> review.result.missing_tests
            /\ LabelHighRisk \in selected
                  <=> review.result.risk_level = "high"
            /\ LabelReady \in selected <=> review.score >= 80
            /\ LabelDuplicate \in selected
                  <=> IsClass(duplicateResult, "duplicate")
            /\ Cardinality(selected) = Len(labelsToApply)
            /\ review.score = calculateScore(scoringFactors, review.result)

\* A duplicate pull request that misses tests and is ready all the same:
\* three labels are selected and high-risk is not.
ThreeLabelsSelected ==
    /\ review.present
    /\ pc = "labels"
    /\ labelsToApply = <<LabelDuplicate, LabelNeedsTests, LabelReady>>

\* --------------------------------------------------------------------- C28
\* The open rows of the run's repository and kind other than the item's own.
OtherRows ==
    { r \in Eligible(store, ThisRepo, ItemKind) :
        r.github_id # NumberToString(ev.number) }

\* The item's own row is certainly among the cap nearest rows: it is in the
\* store, and fewer than cap other rows are as near to the query as it is.
OwnRowAmongNearest ==
    \E own \in Eligible(store, ThisRepo, ItemKind) :
        /\ own.github_id = NumberToString(ev.number)
        /\ Cardinality({ r \in OtherRows :
                SimGE(RowSimilarity(r, currentEmbedding),
                      RowSimilarity(own, currentEmbedding)) }) < cfg.cap

\* C28: in both modes no candidate, no visited item, no item about to be
\* visited and no classified item carries the current item's number, and a stateful query that succeeded
\* while the item's own row was among the cap nearest rows leaves at most
\* cap - 1 candidates.
NeverOwnCandidate ==
    ev.hasItem =>
        /\ \A i \in 1..Len(candidates) : candidates[i].number # ev.number
        /\ \A i \in 1..Len(visited) : visited[i].number # ev.number
        /\ items # << >> => Head(items) # ev.number
        /\ classified # ev.number
        /\ (cfg.db /\ pc \in {"d_none", "d_classify"}
                   /\ "store.select" \notin errors
                   /\ OwnRowAmongNearest) =>
               Len(candidates) <= cfg.cap - 1

\* A stateful query with a cap of one, answered with the item's own row
\* alone although the store holds another open row of the kind: no
\* candidate is left.
OwnRowTakesTheOnlySlot ==
    /\ cfg.db
    /\ pc = "d_none"
    /\ "store.select" \notin errors
    /\ "store.upsert" \notin errors
    /\ cfg.cap = 1
    /\ OwnRowAmongNearest
    /\ OtherRows # {}
    /\ candidates = << >>

\* --------------------------------------------------------------------- C29
\* C29: in both modes the candidate handed to the classification has a
\* similarity of at least the configured threshold, and a detection none of
\* whose candidates reaches the threshold returns null without classifying.
ClassifiedCandidateMeetsThreshold ==
    /\ pc = "d_classify" =>
          MeetsThreshold(TopCandidate(candidates).similarity, cfg.thr)
    /\ (pc \in {"d_none", "d_classify"}
          /\ \A i \in 1..Len(candidates) :
                 ~MeetsThreshold(candidates[i].similarity, cfg.thr)) =>
          pc = "d_none"

\* --------------------------------------------------------------------- C30
\* The calls addLabels makes.
LabelCallNames == {"label.get", "label.create", "label.attach"}

\* The positions of the trace at which the named calls stand.
Positions(names) == { i \in 1..Len(trace) : trace[i] \in names }

====
